---- MODULE Spec2Model ----
(***************************************************************************)
(* Model of BESS_Full_Portfolio.py: one run of the battery arbitrage       *)
(* script.  The script reads the sidebar configuration, generates the      *)
(* hourly price series, builds the dispatch linear program, hands it to    *)
(* the LP solver and renders either the result dashboard or an error.      *)
(*                                                                         *)
(* Numbers.  Prices and the degradation cost are integers.  Power and      *)
(* energy are counted in quanta of 1/Quanta(EFFICIENCY) MW(h): with an     *)
(* efficiency of 1/k every basic solution of the dispatch program has      *)
(* coordinates that are multiples of 1/k^2, so the grid holds every vertex *)
(* of the feasible polytope and the optimum over the grid is the optimum   *)
(* of the program.  The solver returns any optimal grid point.             *)
(***************************************************************************)
EXTENDS Integers, Sequences, FiniteSets, TLC

VARIABLES pc, BATTERY_CAPACITY, MAX_POWER, EFFICIENCY, DEG_COST, VOLATILITY,
          HOURS, final_prices, prob, status, varValues, objective, dashboard,
          prev

vars == <<pc, BATTERY_CAPACITY, MAX_POWER, EFFICIENCY, DEG_COST, VOLATILITY,
          HOURS, final_prices, prob, status, varValues, objective, dashboard,
          prev>>

config == <<BATTERY_CAPACITY, MAX_POWER, EFFICIENCY, DEG_COST, VOLATILITY, HOURS>>

-----------------------------------------------------------------------------
(* Bounds of the model and the input sets the runs are drawn from. *)

\* The horizon, HOURS = DAYS * 24 = 720 in the script, is scaled down.
MaxHours == 3

\* The most grid steps a battery may move over the horizon of a run
\* (HOURS * MAX_POWER * Quanta(EFFICIENCY)): it keeps the set of optimal
\* solutions of one program small enough to enumerate.
MaxThroughput == 15

\* Slider "Battery Capacity (MWh)", 10..200.
Capacities == {10}

\* Slider "Max Power (MW)", 1..50.
Powers == {1, 5}

\* The smallest power of the slider, used for the reruns and the failing solver.
SweepPowers == {1}

\* Slider "Round-Trip Efficiency (%)", 50..100.
Efficiencies == {50, 100}

\* number_input "Degradation Cost ($/MWh)", 0..50.
DegCosts == {0, 10, 20}

\* base_price + noise + spikes before the clamp: any real, here three levels.
RawLevels == {-10, 10, 100}

-----------------------------------------------------------------------------
(* Section 2 of the script: the market data. *)

vol_settings ==
  ("Low" :> [noise |-> 5, spike_prob |-> 1, spike_size |-> 50]) @@
  ("Normal" :> [noise |-> 10, spike_prob |-> 5, spike_size |-> 200]) @@
  ("Extreme" :> [noise |-> 25, spike_prob |-> 10, spike_size |-> 500]) @@
  ("Crisis (Texas 2021)" :> [noise |-> 50, spike_prob |-> 20, spike_size |-> 2000])

\* st.sidebar.selectbox("Market Volatility", [...]): two of the four tags.
Volatilities == {"Low", "Crisis (Texas 2021)"}

\* The tag the reruns and the runs with a failing solver are made under.
SweepVolatilities == {"Low"}

Maximum(a, b) == IF a >= b THEN a ELSE b

\* np.maximum(base_price + noise + spikes, 0)
ClampPrices(raw) == [t \in DOMAIN raw |-> Maximum(raw[t], 0)]

Hours(h) == 0 .. (h - 1)

-----------------------------------------------------------------------------
(* Section 3 of the script: the linear program. *)

\* Grid steps per MW(h) for an efficiency of 1/k (k = 100 / percent).
Quanta(eff) == (100 \div eff) * (100 \div eff)

\* pulp.LpVariable.dicts("Charge", range(HOURS), 0, MAX_POWER)
ChargeBounds(maxPower, q) == [lo |-> 0, hi |-> maxPower * q]

\* pulp.LpVariable.dicts("Discharge", range(HOURS), 0, MAX_POWER)
DischargeBounds(maxPower, q) == [lo |-> 0, hi |-> maxPower * q]

\* Faulty variant: the upper bound of the state of charge one MWh too high.
SocBoundsPlusOne(capacity, q) == [lo |-> 0, hi |-> (capacity + 1) * q]

\* Faulty variant: the two bounds of the state of charge passed in the wrong order.
SocBoundsSwapped(capacity, q) == [lo |-> capacity * q, hi |-> 0]

\* pulp.LpVariable.dicts("SoC", range(HOURS + 1), 0, BATTERY_CAPACITY)
SocBounds(capacity, q) == [lo |-> 0, hi |-> capacity * q]

\* Faulty variant: the cost of the energy bought left out of the objective.
ObjectiveTermNoCost(price, deg) == [discharge |-> price - deg, charge |-> 0]

\* Faulty variant: the wear term left out of the objective.
ObjectiveTermNoWear(price, deg) == [discharge |-> price, charge |-> 0 - price]

\* Faulty variant: the wear term added to the objective instead of subtracted.
ObjectiveTermWearBonus(price, deg) == [discharge |-> price + deg, charge |-> 0 - price]

\* The objective's coefficients of discharge[t] and charge[t]:
\* price*discharge - price*charge - discharge*DEG_COST.
ObjectiveTerm(price, deg) == [discharge |-> price - deg, charge |-> 0 - price]

\* prob += soc_vars[0] == 0
InitialSoc == 0

\* Faulty variant: one flat multiplier, soc[t+1] == soc[t] + (charge[t] - discharge[t])*EFFICIENCY.
BalanceRowFlat(eff) == [soc |-> 100, charge |-> eff, discharge |-> eff]

\* soc[t+1] == soc[t] + charge[t]*EFFICIENCY - discharge[t]/EFFICIENCY, with
\* EFFICIENCY = eff/100, multiplied through by 100*eff.
BalanceRow(eff) == [soc |-> 100 * eff, charge |-> eff * eff, discharge |-> 10000]

NoProblem == [hours |-> 0, objective |-> <<>>, chargeB |-> <<>>, dischargeB |-> <<>>,
              socB |-> <<>>, soc0 |-> 0, balance |-> <<>>]

NoValues == [charge |-> <<>>, discharge |-> <<>>, soc |-> <<>>]

NoDashboard == [kind |-> "none"]

\* What an earlier run of the session left behind (nothing, before the first).
NoRun == [runs |-> 0, prob |-> NoProblem, prices |-> <<>>, status |-> "None",
          varValues |-> NoValues, objective |-> 0, deg |-> 0]

-----------------------------------------------------------------------------
(* prob.solve(): the LP solver, as a function of the program it is given.  *)
(* The program is a chain: the state of charge after hour t depends only   *)
(* on the state before it and on that hour's charge and discharge, so the  *)
(* optimum is computed backwards over the hours, one row of best values    *)
(* per hour and one entry per state of charge ({} where nothing is         *)
(* feasible, {v} where the best objective of the remaining hours is v).    *)

SetMax(S) == CHOOSE x \in S : \A y \in S : y <= x

SocIndex(p, s) == s - p.socB.lo + 1

\* The hour's feasible moves from a state of charge s: <<charge, discharge, soc'>>
\* within the variables' bounds and satisfying the hour's balance constraint.
Steps(p, s) ==
  { st \in { <<c, d, (p.balance.soc * s + p.balance.charge * c
                        - p.balance.discharge * d) \div p.balance.soc>> :
               c \in p.chargeB.lo .. p.chargeB.hi,
               d \in p.dischargeB.lo .. p.dischargeB.hi } :
      /\ p.balance.soc * st[3] =
           p.balance.soc * s + p.balance.charge * st[1] - p.balance.discharge * st[2]
      /\ st[3] \in p.socB.lo .. p.socB.hi }

\* What hour t's move adds to the objective.
StepGain(p, t, st) == p.objective[t].discharge * st[2] + p.objective[t].charge * st[1]

BestAt(p, t, next, s) ==
  LET vals == UNION { { StepGain(p, t, st) + v : v \in next[SocIndex(p, st[3])] } :
                      st \in Steps(p, s) }
  IN  IF vals = {} THEN {} ELSE {SetMax(vals)}

RECURSIVE ValueRow(_, _, _, _)
ValueRow(p, t, next, s) ==
  IF s > p.socB.hi THEN <<>>
  ELSE <<BestAt(p, t, next, s)>> \o ValueRow(p, t, next, s + 1)

RECURSIVE ValueRows(_, _)
ValueRows(p, t) ==
  IF t = p.hours THEN << [i \in 1 .. (p.socB.hi - p.socB.lo + 1) |-> {0}] >>
  ELSE LET rest == ValueRows(p, t + 1)
       IN  <<ValueRow(p, t, rest[1], p.socB.lo)>> \o rest

\* The states of charge the initial condition allows.
StartSocs(p) == {s \in p.socB.lo .. p.socB.hi : s = p.soc0}

RECURSIVE OptimalTails(_, _, _, _)
OptimalTails(p, rows, t, s) ==
  IF t = p.hours THEN {<<>>}
  ELSE UNION { { <<st>> \o tail : tail \in OptimalTails(p, rows, t + 1, st[3]) } :
               st \in { x \in Steps(p, s) :
                          /\ rows[t + 2][SocIndex(p, x[3])] # {}
                          /\ {StepGain(p, t, x) + v : v \in rows[t + 2][SocIndex(p, x[3])]}
                               = rows[t + 1][SocIndex(p, s)] } }

\* The variables' values for a start state and the moves of the hours.
Schedule(p, s0, moves) ==
  [ charge    |-> [t \in Hours(p.hours) |-> moves[t + 1][1]],
    discharge |-> [t \in Hours(p.hours) |-> moves[t + 1][2]],
    soc       |-> [t \in 0 .. p.hours |-> IF t = 0 THEN s0 ELSE moves[t][3]] ]

\* Every optimal solution of the program (empty when it is infeasible).
OptimalSchedules(p) ==
  LET rows   == ValueRows(p, 0)
      starts == {s \in StartSocs(p) : rows[1][SocIndex(p, s)] # {}}
      best   == SetMax(UNION {rows[1][SocIndex(p, s)] : s \in starts})
  IN  IF starts = {} THEN {}
      ELSE UNION { { Schedule(p, s, m) : m \in OptimalTails(p, rows, 0, s) } :
                   s \in {x \in starts : rows[1][SocIndex(p, x)] = {best}} }

\* pulp.value(prob.objective) at the returned values.
RECURSIVE ObjectiveSum(_, _, _)
ObjectiveSum(p, v, t) ==
  IF t = p.hours THEN 0
  ELSE p.objective[t].discharge * v.discharge[t] + p.objective[t].charge * v.charge[t]
       + ObjectiveSum(p, v, t + 1)

-----------------------------------------------------------------------------
(* Section 4 of the script: the dashboard. *)

\* Faulty variant: the realized profit without the wear of the discharge.
pnlNoWear(c, d, price, deg) == (d * price) - (c * price)

\* pnl = (d * price) - (c * price) - (d * DEG_COST)
pnl(c, d, price, deg) == (d * price) - (c * price) - (d * deg)

\* cum_profit after the hours 0..t of the loop.
RECURSIVE CumProfit(_, _, _, _)
CumProfit(v, prices, deg, t) ==
  IF t < 0 THEN 0
  ELSE CumProfit(v, prices, deg, t - 1)
       + pnl(v.charge[t], v.discharge[t], prices[t], deg)

RECURSIVE SumTo(_, _)
SumTo(f, t) == IF t < 0 THEN 0 ELSE SumTo(f, t - 1) + f[t]

\* res_data.append({"Hour", "Price", "Charge", "Discharge", "SoC": soc_vars[t+1]})
ResRow(v, prices, t) ==
  [Hour |-> t, Price |-> prices[t], Charge |-> v.charge[t],
   Discharge |-> v.discharge[t], SoC |-> v.soc[t + 1]]

\* capex_est = BATTERY_CAPACITY * 150000
CapexPerMWh == 150000

\* The Optimal branch: df_res, the profit curve and the four metrics.
Results(v, prices, deg, capacity, q, volatility, h) ==
  [ kind         |-> "results",
    df_res       |-> [t \in Hours(h) |-> ResRow(v, prices, t)],
    profit_curve |-> [t \in Hours(h) |-> CumProfit(v, prices, deg, t)],
    cum_profit   |-> CumProfit(v, prices, deg, h - 1),
    cycles       |-> SumTo(v.discharge, h - 1) \div (capacity * q),
    roi          |-> [profit_x100 |-> CumProfit(v, prices, deg, h - 1) * 100,
                      capex |-> capacity * CapexPerMWh * q],
    volatility   |-> volatility ]

\* Faulty variant: the error rendered together with an empty fallback schedule.
FailureWithFallback == [kind |-> "error", df_res |-> <<>>, cum_profit |-> 0]

\* The else branch: st.error("Optimization failed. Try adjusting constraints.")
Failure == [kind |-> "error"]

-----------------------------------------------------------------------------
(* The run. *)

\* The sidebar: every widget returns a value of its range.
Sidebar(powers, volatilities) ==
  /\ BATTERY_CAPACITY \in Capacities
  /\ MAX_POWER \in powers
  /\ EFFICIENCY \in Efficiencies
  /\ DEG_COST \in DegCosts
  /\ VOLATILITY \in volatilities
  /\ HOURS \in 1 .. MaxHours
  /\ HOURS * MAX_POWER * Quanta(EFFICIENCY) <= MaxThroughput

Fresh ==
  /\ pc = "Configured"
  /\ final_prices = <<>>
  /\ prob = NoProblem
  /\ status = "None"
  /\ varValues = NoValues
  /\ objective = 0
  /\ dashboard = NoDashboard
  /\ prev = NoRun

Init == Sidebar(Powers, Volatilities) /\ Fresh

InitSweep == Sidebar(SweepPowers, SweepVolatilities) /\ Fresh

\* Lines 34-55: np.random.seed(42), the settings of the volatility, the series.
\* The seed is fixed: a rerun with the same volatility draws the same series.
GeneratePrices ==
  /\ pc = "Configured"
  /\ VOLATILITY \in DOMAIN vol_settings
  /\ IF prev.runs > 0
       THEN final_prices' = prev.prices
       ELSE \E raw \in [Hours(HOURS) -> RawLevels] : final_prices' = ClampPrices(raw)
  /\ pc' = "PriceGenerated"
  /\ UNCHANGED <<config, prob, status, varValues, objective, dashboard, prev>>

\* Lines 60-79: the variables, the objective and the constraints.
BuildModel ==
  /\ pc = "PriceGenerated"
  /\ prob' = [ hours      |-> HOURS,
               chargeB    |-> ChargeBounds(MAX_POWER, Quanta(EFFICIENCY)),
               dischargeB |-> DischargeBounds(MAX_POWER, Quanta(EFFICIENCY)),
               socB       |-> SocBounds(BATTERY_CAPACITY, Quanta(EFFICIENCY)),
               objective  |-> [t \in Hours(HOURS) |->
                                 ObjectiveTerm(final_prices[t], DEG_COST)],
               soc0       |-> InitialSoc,
               balance    |-> BalanceRow(EFFICIENCY) ]
  /\ pc' = "ModelBuilt"
  /\ UNCHANGED <<config, final_prices, status, varValues, objective, dashboard, prev>>

\* Line 81, the solver converging: the status of the program and, when it is
\* Optimal, one of its optimal solutions.  The solver is deterministic: given
\* the program of the earlier run it returns what it returned then.
Solve ==
  /\ pc = "ModelBuilt"
  /\ IF prev.runs > 0 /\ prev.prob = prob /\ prev.status \in {"Optimal", "Infeasible"}
       THEN /\ status' = prev.status
            /\ varValues' = prev.varValues
            /\ objective' = prev.objective
       ELSE LET sols == OptimalSchedules(prob)
            IN  IF sols = {}
                  THEN /\ status' = "Infeasible"
                       /\ varValues' = NoValues
                       /\ objective' = 0
                  ELSE /\ status' = "Optimal"
                       /\ \E v \in sols :
                            /\ varValues' = v
                            /\ objective' = ObjectiveSum(prob, v, 0)
  /\ pc' = "Solved"
  /\ UNCHANGED <<config, final_prices, prob, dashboard, prev>>

\* Line 81, the solver failing (not available, not converging): a status other
\* than Optimal, and values that are missing or left over.
SolverFails ==
  /\ pc = "ModelBuilt"
  /\ status' \in {"Not Solved", "Undefined"}
  /\ varValues' \in { NoValues,
                      [ charge    |-> [t \in Hours(HOURS) |-> prob.chargeB.hi],
                        discharge |-> [t \in Hours(HOURS) |-> prob.dischargeB.hi],
                        soc       |-> [t \in 0 .. HOURS |-> prob.socB.hi] ] }
  /\ objective' = 0
  /\ pc' = "Solved"
  /\ UNCHANGED <<config, final_prices, prob, dashboard, prev>>

\* Faulty variant: a failed solve sends the run back to solve again.
DashboardRetry ==
  /\ pc = "Solved"
  /\ IF status = "Optimal"
       THEN /\ dashboard' = Results(varValues, final_prices, DEG_COST, BATTERY_CAPACITY,
                                    Quanta(EFFICIENCY), VOLATILITY, HOURS)
            /\ pc' = "ResultReady"
       ELSE /\ dashboard' = Failure
            /\ pc' = "ModelBuilt"
  /\ UNCHANGED <<config, final_prices, prob, status, varValues, objective, prev>>

\* Lines 86-143: the results when the status is Optimal, the error otherwise.
Dashboard ==
  /\ pc = "Solved"
  /\ IF status = "Optimal"
       THEN /\ dashboard' = Results(varValues, final_prices, DEG_COST, BATTERY_CAPACITY,
                                    Quanta(EFFICIENCY), VOLATILITY, HOURS)
            /\ pc' = "ResultReady"
       ELSE /\ dashboard' = Failure
            /\ pc' = "Failed"
  /\ UNCHANGED <<config, final_prices, prob, status, varValues, objective, prev>>

\* The user raises the degradation cost in the sidebar: the script runs again
\* from the top with the new value and everything else as it was.
Rerun ==
  /\ pc = "ResultReady"
  /\ prev.runs = 0
  /\ \E deg \in {x \in DegCosts : x >= DEG_COST} : DEG_COST' = deg
  /\ prev' = [ runs |-> prev.runs + 1, prob |-> prob, prices |-> final_prices,
               status |-> status, varValues |-> varValues, objective |-> objective,
               deg |-> DEG_COST ]
  /\ pc' = "Configured"
  /\ final_prices' = <<>>
  /\ prob' = NoProblem
  /\ status' = "None"
  /\ varValues' = NoValues
  /\ objective' = 0
  /\ dashboard' = NoDashboard
  /\ UNCHANGED <<BATTERY_CAPACITY, MAX_POWER, EFFICIENCY, VOLATILITY, HOURS>>

\* One run with a solver that converges.
Next == GeneratePrices \/ BuildModel \/ Solve \/ Dashboard

Spec == Init /\ [][Next]_vars

\* A session in which the user raises the degradation cost once and reruns.
NextSweep == GeneratePrices \/ BuildModel \/ Solve \/ Dashboard \/ Rerun

SweepSpec == InitSweep /\ [][NextSweep]_vars

\* One run with a solver that may fail.  The script is straight-line code:
\* every statement that can run does run.
NextRun == GeneratePrices \/ BuildModel \/ SolverFails \/ Solve \/ Dashboard

RunSpec == InitSweep /\ [][NextRun]_vars /\ WF_vars(NextRun)

-----------------------------------------------------------------------------
(* The claims. *)

\* The run holds the schedule of a solve that ended Optimal.
Returned == pc \in {"Solved", "ResultReady"} /\ status = "Optimal"

Total(f) == SumTo(f, HOURS - 1)

MaxPowerQ == MAX_POWER * Quanta(EFFICIENCY)

CapacityQ == BATTERY_CAPACITY * Quanta(EFFICIENCY)

\* C1: in every schedule of an Optimal solve charge[t] and discharge[t] lie in
\* [0, maxPower] for every hour, stateOfCharge[t] lies in [0, capacity] for
\* every t in 0..H, and stateOfCharge[0] = 0.
C1_Bounds ==
  Returned =>
    /\ \A t \in Hours(HOURS) :
         /\ 0 <= varValues.charge[t] /\ varValues.charge[t] <= MaxPowerQ
         /\ 0 <= varValues.discharge[t] /\ varValues.discharge[t] <= MaxPowerQ
    /\ \A t \in 0 .. HOURS :
         0 <= varValues.soc[t] /\ varValues.soc[t] <= CapacityQ
    /\ varValues.soc[0] = 0

\* A schedule that charges at full power, discharges at full power and fills
\* the battery to its capacity.
C1_Witness ==
  /\ Returned
  /\ \E t \in Hours(HOURS) : varValues.charge[t] = MaxPowerQ
  /\ \E t \in Hours(HOURS) : varValues.discharge[t] = MaxPowerQ
  /\ \E t \in 0 .. HOURS : varValues.soc[t] = CapacityQ

\* C2: in every schedule of an Optimal solve, for every hour t,
\* soc[t+1] = soc[t] + charge[t]*e - discharge[t]/e with e = EFFICIENCY/100
\* (both sides multiplied by 100*EFFICIENCY).
C2_Balance ==
  Returned =>
    \A t \in Hours(HOURS) :
      (varValues.soc[t + 1] - varValues.soc[t]) * 100 * EFFICIENCY
        = varValues.charge[t] * EFFICIENCY * EFFICIENCY
          - varValues.discharge[t] * 100 * 100

\* A lossy battery (efficiency 50 %) that charges and later discharges.
C2_Witness ==
  /\ Returned
  /\ EFFICIENCY = 50
  /\ \E t \in Hours(HOURS) : varValues.charge[t] > 0
  /\ \E t \in Hours(HOURS) : varValues.discharge[t] > 0

\* The 3-hour scenario: capacity 10, maxPower 5, efficiency 1.0, no wear cost.
Toy ==
  /\ BATTERY_CAPACITY = 10 /\ MAX_POWER = 5 /\ EFFICIENCY = 100 /\ DEG_COST = 0
  /\ HOURS = 3
  /\ final_prices = (0 :> 10) @@ (1 :> 100) @@ (2 :> 10)

\* C3 as stated: in the 3-hour scenario the optimal schedule charges 5 at t=0,
\* discharges 5 at t=1, idles at t=2, and the objective value is 450.
C3_Original ==
  (Toy /\ Returned) =>
    /\ varValues.charge = (0 :> 5) @@ (1 :> 0) @@ (2 :> 0)
    /\ varValues.discharge = (0 :> 0) @@ (1 :> 5) @@ (2 :> 0)
    /\ varValues.soc = (0 :> 0) @@ (1 :> 5) @@ (2 :> 0) @@ (3 :> 0)
    /\ objective = 450

\* C3 as amended: in the 3-hour scenario every optimal schedule charges 5 at
\* t=0 (soc[1]=5), discharges 5 at t=1 (soc[2]=0), has no net action at t=2
\* (charge[2] = discharge[2], soc[3]=0), and the objective value is 450.
C3_Toy ==
  (Toy /\ Returned) =>
    /\ varValues.charge[0] = 5 /\ varValues.discharge[0] = 0
    /\ varValues.charge[1] = 0 /\ varValues.discharge[1] = 5
    /\ varValues.charge[2] = varValues.discharge[2]
    /\ varValues.soc = (0 :> 0) @@ (1 :> 5) @@ (2 :> 0) @@ (3 :> 0)
    /\ objective = 450

\* The scenario solved, with the schedule the spec expects.
C3_Witness ==
  /\ Toy /\ Returned
  /\ varValues.charge = (0 :> 5) @@ (1 :> 0) @@ (2 :> 0)
  /\ varValues.discharge = (0 :> 0) @@ (1 :> 5) @@ (2 :> 0)

\* C4: for every Optimal solve the sum of the per-hour realized profit, the
\* final value of the cumulative profit curve, equals the objective value the
\* solver reports.
C4_ObjectiveConsistency ==
  pc = "ResultReady" =>
    /\ dashboard.cum_profit = objective
    /\ dashboard.profit_curve[HOURS - 1] = objective

\* A profitable run under a positive wear cost.
C4_Witness ==
  /\ pc = "ResultReady"
  /\ DEG_COST > 0
  /\ objective > 0
  /\ dashboard.cum_profit > 0

\* capacity > 0, maxPower > 0, 0 < efficiency <= 1, degradationCost >= 0,
\* horizonHours > 0, prices non-negative.
ValidInput ==
  /\ BATTERY_CAPACITY > 0 /\ MAX_POWER > 0
  /\ 0 < EFFICIENCY /\ EFFICIENCY <= 100
  /\ DEG_COST >= 0 /\ HOURS > 0
  /\ \A t \in DOMAIN final_prices : final_prices[t] >= 0

\* C5: for any valid configuration and non-negative price series the solve
\* status is Optimal (never Infeasible, never Unbounded).
C5_AlwaysOptimal ==
  (ValidInput /\ pc \in {"Solved", "ResultReady", "Failed"}) => status = "Optimal"

\* A solve in which nothing beats the all-zero schedule.
C5_Witness ==
  /\ ValidInput /\ pc = "Solved" /\ status = "Optimal"
  /\ objective = 0
  /\ \A t \in Hours(HOURS) : varValues.charge[t] = 0 /\ varValues.discharge[t] = 0

\* The largest price of the series minus the smallest.
MaxSpread(prices) ==
  SetMax({prices[t] - prices[u] : t \in DOMAIN prices, u \in DOMAIN prices})

\* C6 as stated: if degradationCost exceeds the maximum price spread, the
\* optimal schedule is all-zero and the objective value is 0.
C6_Original ==
  (Returned /\ DEG_COST > MaxSpread(final_prices)) =>
    /\ \A t \in Hours(HOURS) : varValues.charge[t] = 0 /\ varValues.discharge[t] = 0
    /\ objective = 0

\* C6 as amended: if degradationCost exceeds the maximum price spread, every
\* optimal schedule discharges nothing, charges nothing in any hour whose
\* price is positive, and the objective value is 0.
C6_Degenerate ==
  (Returned /\ DEG_COST > MaxSpread(final_prices)) =>
    /\ \A t \in Hours(HOURS) :
         /\ varValues.discharge[t] = 0
         /\ final_prices[t] > 0 => varValues.charge[t] = 0
    /\ objective = 0

\* A series with a spread, a wear cost above it, and the solve done.
C6_Witness ==
  /\ Returned
  /\ MaxSpread(final_prices) > 0
  /\ DEG_COST > MaxSpread(final_prices)

\* C7: with the price series and the rest of the configuration fixed, the
\* optimal schedule under a degradation cost d2 >= d1 discharges no more in
\* total than the optimal schedule under d1.
C7_HurdleMonotone ==
  ( /\ prev.runs > 0 /\ prev.status = "Optimal" /\ Returned
    /\ prev.prices = final_prices /\ prev.deg <= DEG_COST ) =>
    Total(varValues.discharge) <= Total(prev.varValues.discharge)

\* A rerun under a higher wear cost that discharges strictly less.
C7_Witness ==
  /\ prev.runs > 0 /\ prev.status = "Optimal" /\ Returned
  /\ prev.prices = final_prices /\ prev.deg < DEG_COST
  /\ Total(varValues.discharge) < Total(prev.varValues.discharge)
  /\ Total(varValues.discharge) > 0

ResultFields == {"kind", "df_res", "profit_curve", "cum_profit", "cycles", "roi",
                 "volatility"}

\* C9: when the status is not Optimal the run produces no schedule, no profit
\* and no metrics, only the failure; the result is fully populated exactly
\* when the status is Optimal; nothing is produced before the run ends.
C9_StatusOnly ==
  /\ pc \in {"Configured", "PriceGenerated", "ModelBuilt", "Solved"} =>
       dashboard = NoDashboard
  /\ (pc \in {"ResultReady", "Failed"} /\ status # "Optimal") =>
       DOMAIN dashboard = {"kind"} /\ dashboard.kind = "error"
  /\ (pc \in {"ResultReady", "Failed"} /\ status = "Optimal") =>
       /\ DOMAIN dashboard = ResultFields
       /\ dashboard.kind = "results"
       /\ DOMAIN dashboard.df_res = Hours(HOURS)
       /\ DOMAIN dashboard.profit_curve = Hours(HOURS)

\* A failed solve that left values in the variables: none of them is shown.
C9_Witness ==
  /\ pc = "Failed"
  /\ status = "Undefined"
  /\ varValues # NoValues
  /\ dashboard = Failure

PhaseStep ==
  \/ pc = "Configured" /\ pc' = "PriceGenerated"
  \/ pc = "PriceGenerated" /\ pc' = "ModelBuilt"
  \/ pc = "ModelBuilt" /\ pc' = "Solved"
  \/ pc = "Solved" /\ status = "Optimal" /\ pc' = "ResultReady"
  \/ pc = "Solved" /\ status # "Optimal" /\ pc' = "Failed"

\* C10: every run starts Configured, moves only Configured -> PriceGenerated
\* -> ModelBuilt -> Solved -> ResultReady (iff the status is Optimal) or
\* Failed (otherwise), never leaves ResultReady or Failed, and eventually
\* reaches one of the two.
C10_Phases ==
  /\ pc = "Configured"
  /\ [][PhaseStep]_pc
  /\ [][pc \notin {"ResultReady", "Failed"}]_vars
  /\ <>(pc \in {"ResultReady", "Failed"})

\* A run that went through every phase and ended Failed on an unsolved program.
C10_Witness ==
  /\ pc = "Failed"
  /\ status = "Not Solved"
  /\ prob # NoProblem
  /\ final_prices # <<>>

====
